---------------------------- MODULE Spec2Model ----------------------------
(***************************************************************************)
(* Model of my/core/discovery_pure.py: static discovery of HPI modules.    *)
(*                                                                         *)
(* A text string is a sequence of one-character strings, so that the       *)
(* character-level operations of the code (suffix stripping, '/' -> '.'    *)
(* replacement, the regular expression of ignored(), string comparison)    *)
(* are computed and not assumed.  A path is the sequence of its            *)
(* components, each a text string, as pathlib keeps it.  Identifiers of    *)
(* the syntax tree (REQUIRES, __NOT_HPI_MODULE__, ...) are never taken     *)
(* apart and are plain strings.  Optional[T] is a sequence of length at    *)
(* most one: None is <<>>, a present value v is <<v>>.                     *)
(***************************************************************************)
EXTENDS Integers, Sequences, FiniteSets, TLC

VARIABLES
  tree,    \* the files under my_root (the file system, never written)
  mode,    \* "none", "all" (a caller iterates all_modules) or "lookup"
  arg,     \* the name module_by_name was called with
  pc,      \* "idle", "running", "done", "raised" or "returned"
  todo,    \* the files of the sorted walk not yet visited
  out,     \* the records yielded by the current pass, in order
  prev,    \* the records of the pass before the current one, if any
  result,  \* the record module_by_name returned
  err,     \* the exception that ended the call
  logged   \* the files whose extraction failure was logged

vars == <<tree, mode, arg, pc, todo, out, prev, result, err, logged>>

\* ------------------------------------------------------------------ bounds
\* Largest number of files in a tree of the path family.
MaxFiles == 3
\* Longest top-level statement list of a generated file body.
MaxStmts == 2
\* Longest REQUIRES collection of a generated declaration.
MaxElts == 2

\* ------------------------------------------------------- module constants
REQUIRES == "REQUIRES"
NOT_HPI_MODULE_VAR == "__NOT_HPI_MODULE__"

None == <<>>
Some(v) == <<v>>

\* --------------------------------------------------------------- strings
\* Code point of a character (Python compares str by code point).
Ord(c) ==
  CASE c = "\n" -> 10
    [] c = "-" -> 45
    [] c = "." -> 46
    [] c = "/" -> 47
    [] c = "_" -> 95
    [] c = "a" -> 97
    [] c = "b" -> 98
    [] c = "c" -> 99
    [] c = "e" -> 101
    [] c = "f" -> 102
    [] c = "g" -> 103
    [] c = "i" -> 105
    [] c = "m" -> 109
    [] c = "n" -> 110
    [] c = "o" -> 111
    [] c = "p" -> 112
    [] c = "r" -> 114
    [] c = "t" -> 116
    [] c = "x" -> 120
    [] c = "y" -> 121
    [] c = "z" -> 122

\* str.__lt__: lexicographic comparison by code point.
RECURSIVE StrLess(_, _)
StrLess(s, t) ==
  IF t = <<>> THEN FALSE
  ELSE IF s = <<>> THEN TRUE
  ELSE IF s[1] # t[1] THEN Ord(s[1]) < Ord(t[1])
  ELSE StrLess(Tail(s), Tail(t))

StartsWith(s, p) == Len(s) >= Len(p) /\ SubSeq(s, 1, Len(p)) = p
EndsWith(s, p) == Len(s) >= Len(p) /\ SubSeq(s, Len(s) - Len(p) + 1, Len(s)) = p

\* str.replace(old, new) for one-character old and new.
Replace(s, old, new) == [i \in 1..Len(s) |-> IF s[i] = old THEN new ELSE s[i]]

\* str.rfind(c): the last index of c, 0-based as in Python, -1 if none.
RFind(s, c) ==
  IF \E i \in 1..Len(s) : s[i] = c
  THEN (CHOOSE i \in 1..Len(s) : s[i] = c /\ \A j \in (i+1)..Len(s) : s[j] # c) - 1
  ELSE -1

\* The text constants of the model.
S_my == <<"m", "y">>
S_a == <<"a">>
S_a_py == <<"a", ".", "p", "y">>
S_b_py == <<"b", ".", "p", "y">>
S_x_py == <<"x", ".", "p", "y">>
S_a_b == <<"a", ".", "b">>
S_a_b_py == <<"a", ".", "b", ".", "p", "y">>
S_init_py == <<"_", "_", "i", "n", "i", "t", "_", "_", ".", "p", "y">>
S_core == <<"c", "o", "r", "e">>
S_config == <<"c", "o", "n", "f", "i", "g">>
S_config_py == <<"c", "o", "n", "f", "i", "g", ".", "p", "y">>
S_corex_py == <<"c", "o", "r", "e", "x", ".", "p", "y">>
S_b_txt == <<"b", ".", "t", "x", "t">>
S_dot_py == <<".", "p", "y">>

\* ----------------------------------------------------------------- paths
\* str(path): the components joined by '/'.
RECURSIVE PathStr(_)
PathStr(p) ==
  IF p = <<>> THEN <<".">>
  ELSE IF Len(p) = 1 THEN p[1]
  ELSE p[1] \o <<"/">> \o PathStr(Tail(p))

\* A sort key that compares the paths as whole strings, separators included.
PathLessByString(p, q) == StrLess(PathStr(p), PathStr(q))

\* PurePath.__lt__: the component lists are compared as Python lists, each
\* component as a str.
RECURSIVE PathLess(_, _)
PathLess(p, q) ==
  IF q = <<>> THEN FALSE
  ELSE IF p = <<>> THEN TRUE
  ELSE IF p[1] # q[1] THEN StrLess(p[1], q[1])
  ELSE PathLess(Tail(p), Tail(q))

\* PurePath.name and PurePath.parent of a relative path.
PathName(p) == IF p = <<>> THEN <<>> ELSE p[Len(p)]
PathParent(p) == IF p = <<>> THEN <<>> ELSE SubSeq(p, 1, Len(p) - 1)

\* PurePath.suffix: from the last dot of the name, unless that dot is the
\* first or the last character.
PathSuffix(p) ==
  LET name == PathName(p)
      i == RFind(name, ".")
  IN IF 0 < i /\ i < Len(name) - 1 THEN SubSeq(name, i + 1, Len(name)) ELSE <<>>

\* PurePath.with_suffix(''): the last component without its suffix.
WithSuffixEmpty(p) ==
  LET name == PathName(p)
      suf == PathSuffix(p)
  IN IF suf = <<>> THEN p
     ELSE Append(PathParent(p), SubSeq(name, 1, Len(name) - Len(suf)))

\* fnmatch of a file name against '*.py' (rglob's pattern).
MatchesPy(name) == EndsWith(name, S_dot_py)

\* Lines 87-90: the module name of the file at relative path mp.
ModuleName(rel) ==
  LET mp == IF PathName(rel) = S_init_py THEN PathParent(rel) ELSE rel
  IN Replace(PathStr(WithSuffixEmpty(mp)), "/", ".")

\* '.' of a regular expression: any character but a newline.
AnyChar(c) == c # "\n"

\* An exclusion list that lost its 'config.*' entry.
ignored_core_only(m) ==
  LET n == IF m # <<>> /\ m[Len(m)] = "\n" THEN SubSeq(m, 1, Len(m) - 1) ELSE m
      rest == SubSeq(n, 4, Len(n))
  IN /\ Len(n) >= 3
     /\ SubSeq(n, 1, 2) = <<"m", "y">>
     /\ n[3] # "\n"
     /\ StartsWith(rest, <<"c", "o", "r", "e">>)
     /\ \A i \in 1..Len(rest) : rest[i] # "\n"

\* Lines 35-42: re.match('^my.(core.*|config.*)$', m) is not None.  '$' also
\* matches just before a newline that ends the string.
ignored(m) ==
  LET n == IF m # <<>> /\ m[Len(m)] = "\n" THEN SubSeq(m, 1, Len(m) - 1) ELSE m
      rest == SubSeq(n, 4, Len(n))
  IN /\ Len(n) >= 3
     /\ SubSeq(n, 1, 2) = S_my
     /\ AnyChar(n[3])
     /\ StartsWith(rest, S_core) \/ StartsWith(rest, S_config)
     /\ \A i \in 1..Len(rest) : AnyChar(rest[i])

\* ----------------------------------------------------------- syntax trees
\* A node is a record holding its kind and the attributes the ast module
\* gives that kind; getattr(node, a, None) sees exactly the record's fields.
NameE(id) == [kind |-> "Name", id |-> id]
AttributeE(attr) == [kind |-> "Attribute", attr |-> attr]
ConstE(t, v) == [kind |-> "Constant", value |-> [t |-> t, v |-> v]]
ListE(elts) == [kind |-> "List", elts |-> elts]
TupleE(elts) == [kind |-> "Tuple", elts |-> elts]
DictE == [kind |-> "Dict", keys |-> <<>>, values |-> <<>>]
Assign(targets, value) == [kind |-> "Assign", targets |-> targets, value |-> value]
FunctionDef(name) == [kind |-> "FunctionDef", name |-> name, body |-> <<>>]
ClassDef(name) == [kind |-> "ClassDef", name |-> name, body |-> <<>>]
Alias(name, asname) == [kind |-> "alias", name |-> name, asname |-> asname]
ImportFrom(names) == [kind |-> "ImportFrom", names |-> names]
Import(names) == [kind |-> "Import", names |-> names]
IfS(body) == [kind |-> "If", body |-> body]
ExprS(value) == [kind |-> "Expr", value |-> value]

\* getattr(node, a, None) == v, for a value v that is not None.
AttrIs(node, a, v) == a \in DOMAIN node /\ node[a] = v

\* isinstance(c, ast.Constant); ast.Str is the deprecated alias that holds of
\* the Constant nodes with a str value.
IsConstant(c) == c.kind = "Constant"
IsStr(c) == c.kind = "Constant" /\ c.value.t = "str"

\* A collector that returns None for an empty collection ('tuple(deps) or None').
CollectDepsEmptyNone(elts) ==
  IF \A i \in 1..Len(elts) : IsConstant(elts[i]) \/ IsStr(elts[i])
  THEN [raised |-> FALSE,
        value |-> IF elts = <<>> THEN None ELSE Some([i \in 1..Len(elts) |-> elts[i].value])]
  ELSE [raised |-> TRUE, value |-> None]

\* Lines 66-74: the values of the elements, or the RuntimeError.
CollectDeps(elts) ==
  IF \A i \in 1..Len(elts) : IsConstant(elts[i]) \/ IsStr(elts[i])
  THEN [raised |-> FALSE, value |-> Some([i \in 1..Len(elts) |-> elts[i].value])]
  ELSE [raised |-> TRUE, value |-> None]

\* Lines 51-65: the statement is the assignment the loop stops at.
IsRequiresAssign(x) ==
  /\ x.kind = "Assign"
  /\ Len(x.targets) = 1
  /\ AttrIs(x.targets[1], "id", REQUIRES)
  /\ "elts" \in DOMAIN x.value

\* Lines 48-75: _extract_requirements over the top-level statements.
RECURSIVE _extract_requirements(_)
_extract_requirements(body) ==
  IF body = <<>> THEN [raised |-> FALSE, value |-> None]
  ELSE IF IsRequiresAssign(Head(body)) THEN CollectDeps(Head(body).value.elts)
  ELSE _extract_requirements(Tail(body))

\* Lines 94-98: is_not_module.
is_not_module(body) ==
  \E i \in 1..Len(body) :
    \/ AttrIs(body[i], "name", NOT_HPI_MODULE_VAR)
    \/ /\ "names" \in DOMAIN body[i]
       /\ \E j \in 1..Len(body[i].names) : AttrIs(body[i].names[j], "name", NOT_HPI_MODULE_VAR)

\* Line 101: ast.get_docstring(a, clean=False).
get_docstring(body) ==
  IF body # <<>> /\ body[1].kind = "Expr" /\ IsStr(body[1].value)
  THEN Some(body[1].value.value.v)
  ELSE None

\* ------------------------------------------------------------ file trees
\* A file of the tree under my_root: its path relative to my_root.parent,
\* whether it is a symbolic link, whether ast.parse accepts its text, and the
\* top-level statements of its syntax tree.
MkFile(path, c) == [path |-> path, symlink |-> c.symlink, parses |-> c.parses, body |-> c.body]

Content(symlink, parses, body) == [symlink |-> symlink, parses |-> parses, body |-> body]

StrP == ConstE("str", "p")
StrQ == ConstE("str", "q")
Int1 == ConstE("int", "1")
NoneC == ConstE("NoneType", "None")
NameX == NameE("x")

\* The paths the trees of the path family are built from.
CandidatePaths ==
  { <<S_my, S_init_py>>,
    <<S_my, S_a_py>>,
    <<S_my, S_a, S_init_py>>,
    <<S_my, S_a_b_py>>,
    <<S_my, S_a_b, S_init_py>>,
    <<S_my, S_core, S_x_py>>,
    <<S_my, S_config_py>>,
    <<S_my, S_corex_py>>,
    <<S_my, S_b_txt>> }

\* What a file of the path family holds: a plain module, a symbolic link, a
\* text that does not parse.
PathContents ==
  { Content(FALSE, TRUE, <<ExprS(ConstE("str", "doc"))>>),
    Content(TRUE, TRUE, <<>>),
    Content(FALSE, FALSE, <<>>) }

PathTrees ==
  UNION { { { MkFile(p, f[p]) : p \in D } : f \in [D -> PathContents] } :
          D \in { E \in SUBSET CandidatePaths : Cardinality(E) <= MaxFiles } }

\* All sequences over S of length at most n.
SeqsUpTo(S, n) == UNION { [1..k -> S] : k \in 0..n }

\* The elements a REQUIRES collection is built from.
Elts == { StrP, StrQ, Int1, NoneC, NameX }

\* The top-level statements the generated bodies are built from.
Stmts ==
  { ExprS(ConstE("str", "doc")),
    Assign(<<NameE(REQUIRES)>>, ListE(<<>>)),
    Assign(<<NameE(REQUIRES)>>, ListE(<<StrP, StrQ>>)),
    Assign(<<NameE(REQUIRES)>>, TupleE(<<StrP, Int1>>)),
    Assign(<<NameE(REQUIRES)>>, ListE(<<StrP, NameX>>)),
    Assign(<<NameE(REQUIRES)>>, DictE),
    Assign(<<NameX, NameE(REQUIRES)>>, ListE(<<StrP>>)),
    Assign(<<AttributeE(REQUIRES)>>, ListE(<<StrP>>)),
    Assign(<<NameE(NOT_HPI_MODULE_VAR)>>, ConstE("bool", "True")),
    FunctionDef(NOT_HPI_MODULE_VAR),
    ClassDef(NOT_HPI_MODULE_VAR),
    ImportFrom(<<Alias(NOT_HPI_MODULE_VAR, None)>>),
    Import(<<Alias("x", Some(NOT_HPI_MODULE_VAR))>>),
    IfS(<<FunctionDef(NOT_HPI_MODULE_VAR)>>) }

\* Generated bodies: statement lists, and single declarations over every
\* collection of at most MaxElts elements.
Bodies ==
  SeqsUpTo(Stmts, MaxStmts)
    \cup { <<Assign(<<NameE(REQUIRES)>>, ListE(e))>> : e \in SeqsUpTo(Elts, MaxElts) }

\* The trees of the syntax family: my/a.py with a generated body, alone or
\* beside my/b.py, a plain module that declares one requirement.
AstTrees ==
  LET a(b) == MkFile(<<S_my, S_a_py>>, Content(FALSE, TRUE, b))
      other == MkFile(<<S_my, S_b_py>>,
                      Content(FALSE, TRUE, <<Assign(<<NameE(REQUIRES)>>, ListE(<<StrQ>>))>>))
  IN { {a(b)} : b \in Bodies } \cup { {a(b), other} : b \in Bodies }

Trees == PathTrees \cup AstTrees

\* The names module_by_name is asked for.
LookupNames ==
  { <<"m", "y", ".", "a">>,
    <<"m", "y", ".", "a", ".", "b">>,
    <<"m", "y", ".", "z", "z">> }

\* ------------------------------------------------------------- discovery
\* sorted(): the paths in increasing order of PathLess.
RECURSIVE sorted(_)
sorted(F) ==
  IF F = {} THEN <<>>
  ELSE LET m == CHOOSE x \in F : \A y \in F \ {x} : PathLess(x.path, y.path)
       IN <<m>> \o sorted(F \ {m})

\* Line 84: sorted(my_root.rglob('*.py')).
Walk(t) == sorted({ f \in t : MatchesPy(PathName(f.path)) })

\* Lines 103-115: the record of a file that is a module.
HPIModule(f) ==
  [ name |-> ModuleName(f.path),
    skip_reason |-> None,
    doc |-> get_docstring(f.body),
    file |-> f.path,
    requires |-> _extract_requirements(f.body).value ]

Init ==
  /\ tree \in Trees
  /\ mode = "none"
  /\ arg = None
  /\ pc = "idle"
  /\ todo = <<>>
  /\ out = <<>>
  /\ prev = None
  /\ result = None
  /\ err = None
  /\ logged = {}

\* A caller starts iterating all_modules(): first on a fresh process, then
\* again after a pass that ended normally.
CallAllModules ==
  /\ \/ pc = "idle"
     \/ pc = "done" /\ mode = "all"
  /\ mode' = "all"
  /\ pc' = "running"
  /\ todo' = Walk(tree)
  /\ prev' = IF pc = "done" THEN Some(out) ELSE None
  /\ out' = <<>>
  /\ logged' = {}
  /\ UNCHANGED <<tree, arg, result, err>>

\* Lines 118-119: module_by_name(name) starts its pass.
CallModuleByName ==
  /\ pc = "idle"
  /\ \E name \in LookupNames : arg' = Some(name)
  /\ mode' = "lookup"
  /\ pc' = "running"
  /\ todo' = Walk(tree)
  /\ out' = <<>>
  /\ logged' = {}
  /\ UNCHANGED <<tree, prev, result, err>>

\* Lines 85-86.
SkipSymlink ==
  /\ pc = "running" /\ todo # <<>>
  /\ Head(todo).symlink
  /\ todo' = Tail(todo)
  /\ UNCHANGED <<tree, mode, arg, pc, out, prev, result, err, logged>>

\* Lines 87-92.
SkipIgnored ==
  /\ pc = "running" /\ todo # <<>>
  /\ ~Head(todo).symlink
  /\ ignored(ModuleName(Head(todo).path))
  /\ todo' = Tail(todo)
  /\ UNCHANGED <<tree, mode, arg, pc, out, prev, result, err, logged>>

\* A parse failure caught per file: the file is skipped and the walk goes on.
ParseErrorSkipped ==
  /\ pc = "running" /\ todo # <<>>
  /\ ~Head(todo).symlink
  /\ ~ignored(ModuleName(Head(todo).path))
  /\ ~Head(todo).parses
  /\ todo' = Tail(todo)
  /\ UNCHANGED <<tree, mode, arg, pc, out, prev, result, err, logged>>

\* Line 93: ast.parse raises; nothing catches it, in all_modules or in
\* module_by_name.
ParseError ==
  /\ pc = "running" /\ todo # <<>>
  /\ ~Head(todo).symlink
  /\ ~ignored(ModuleName(Head(todo).path))
  /\ ~Head(todo).parses
  /\ pc' = "raised"
  /\ err' = Some("SyntaxError")
  /\ UNCHANGED <<tree, mode, arg, todo, out, prev, result, logged>>

\* Lines 94-100.
SkipNotModule ==
  /\ pc = "running" /\ todo # <<>>
  /\ ~Head(todo).symlink
  /\ ~ignored(ModuleName(Head(todo).path))
  /\ Head(todo).parses
  /\ is_not_module(Head(todo).body)
  /\ todo' = Tail(todo)
  /\ UNCHANGED <<tree, mode, arg, pc, out, prev, result, err, logged>>

\* A lookup over list(all_modules()): the match is kept and the pass goes on.
YieldModuleEager ==
  /\ pc = "running" /\ todo # <<>>
  /\ ~Head(todo).symlink
  /\ ~ignored(ModuleName(Head(todo).path))
  /\ Head(todo).parses
  /\ ~is_not_module(Head(todo).body)
  /\ LET f == Head(todo)
         m == HPIModule(f)
     IN /\ out' = Append(out, m)
        /\ logged' = IF _extract_requirements(f.body).raised
                     THEN logged \cup {f.path} ELSE logged
        /\ todo' = Tail(todo)
        /\ IF mode = "lookup" /\ Some(m.name) = arg /\ result = None
           THEN result' = Some(m)
           ELSE UNCHANGED result
  /\ UNCHANGED <<tree, mode, arg, pc, prev, err>>

\* Lines 101-115, and lines 119-121 when module_by_name consumes the record.
YieldModule ==
  /\ pc = "running" /\ todo # <<>>
  /\ ~Head(todo).symlink
  /\ ~ignored(ModuleName(Head(todo).path))
  /\ Head(todo).parses
  /\ ~is_not_module(Head(todo).body)
  /\ LET f == Head(todo)
         m == HPIModule(f)
     IN /\ out' = Append(out, m)
        /\ logged' = IF _extract_requirements(f.body).raised
                     THEN logged \cup {f.path} ELSE logged
        /\ todo' = Tail(todo)
        /\ IF mode = "lookup" /\ Some(m.name) = arg
           THEN pc' = "returned" /\ result' = Some(m)
           ELSE UNCHANGED <<pc, result>>
  /\ UNCHANGED <<tree, mode, arg, prev, err>>

\* A lookup that answers a miss with None instead of raising.
ExhaustedReturnsNone ==
  /\ pc = "running" /\ todo = <<>>
  /\ IF mode = "lookup"
     THEN pc' = "returned"
     ELSE pc' = "done"
  /\ UNCHANGED <<tree, mode, arg, todo, out, prev, result, err, logged>>

\* The walk is over: the generator ends; line 122 in module_by_name.
Exhausted ==
  /\ pc = "running" /\ todo = <<>>
  /\ IF mode = "lookup"
     THEN pc' = "raised" /\ err' = Some("No such module")
     ELSE pc' = "done" /\ UNCHANGED err
  /\ UNCHANGED <<tree, mode, arg, todo, out, prev, result, logged>>

Next ==
  \/ CallAllModules
  \/ CallModuleByName
  \/ SkipSymlink
  \/ SkipIgnored
  \/ ParseError
  \/ SkipNotModule
  \/ YieldModule
  \/ Exhausted

Spec == Init /\ [][Next]_vars

\* ---------------------------------------------------------------- claims
\* W is the walk of the tree; a file of it is fatal when ast.parse is reached
\* and fails, eligible when a record is built from it.
W == Walk(tree)
Fatal(f) == ~f.symlink /\ ~ignored(ModuleName(f.path)) /\ ~f.parses
Eligible(f) ==
  ~f.symlink /\ ~ignored(ModuleName(f.path)) /\ f.parses /\ ~is_not_module(f.body)
\* all_modules() emits a record for the k-th file of the walk.
WouldEmit(k) == Eligible(W[k]) /\ \A j \in 1..(k - 1) : ~Fatal(W[j])
FileOf(rec) == CHOOSE f \in tree : f.path = rec.file
Emitted(f) == \E i \in 1..Len(out) : out[i].file = f.path
Terminal == pc \in {"done", "raised", "returned"}

\* The reserved subnamespaces: the package my.core or my.config and
\* everything below it.
InReserved(name) ==
  \E ns \in {S_core, S_config} :
    \/ name = S_my \o <<".">> \o ns
    \/ StartsWith(name, S_my \o <<".">> \o ns \o <<".">>)

\* C1: no emitted record has a name that ignored() excludes, no file whose
\* name lies in the reserved my.core or my.config subnamespaces is reported,
\* and a pass that ends normally has reported every file of the walk that is
\* not excluded, not a symbolic link and not opted out.
C1_Exclusion ==
  /\ \A i \in 1..Len(out) : ~ignored(out[i].name) /\ ~InReserved(out[i].name)
  /\ \A f \in tree : InReserved(ModuleName(f.path)) => ~Emitted(f)
  /\ (mode = "all" /\ pc = "done") =>
       \A f \in tree :
         ( /\ MatchesPy(PathName(f.path))
           /\ ~f.symlink
           /\ ~ignored(ModuleName(f.path))
           /\ ~is_not_module(f.body) ) => Emitted(f)

C1_Witness ==
  /\ mode = "all" /\ pc = "done"
  /\ \E f \in tree : ~f.symlink /\ f.parses /\ InReserved(ModuleName(f.path))
  /\ \E f \in tree : ~f.symlink /\ f.parses /\ ignored(ModuleName(f.path))
                       /\ ~InReserved(ModuleName(f.path))
  /\ Len(out) >= 1

\* The sentinel at top level, in the forms the opt-out is documented for: a
\* variable assigned, a function or class defined, a name imported from a
\* module, a module imported under that name.
TopLevelSentinel(body) ==
  \E i \in 1..Len(body) :
    \/ /\ body[i].kind = "Assign"
       /\ \E j \in 1..Len(body[i].targets) :
            body[i].targets[j] = NameE(NOT_HPI_MODULE_VAR)
    \/ /\ body[i].kind \in {"FunctionDef", "ClassDef"}
       /\ body[i].name = NOT_HPI_MODULE_VAR
    \/ /\ body[i].kind \in {"ImportFrom", "Import"}
       /\ \E j \in 1..Len(body[i].names) :
            \/ body[i].names[j].asname = None /\ body[i].names[j].name = NOT_HPI_MODULE_VAR
            \/ body[i].names[j].asname = Some(NOT_HPI_MODULE_VAR)

\* C2: a file whose top-level statements hold the sentinel in any supported
\* form yields no record, and a file that holds it only inside a nested
\* block is still emitted by a pass that ends normally.
C2_OptOut ==
  /\ \A i \in 1..Len(out) : ~TopLevelSentinel(FileOf(out[i]).body)
  /\ (mode = "all" /\ pc = "done") =>
       \A f \in tree :
         ( /\ MatchesPy(PathName(f.path))
           /\ ~f.symlink
           /\ ~ignored(ModuleName(f.path))
           /\ ~TopLevelSentinel(f.body) ) => Emitted(f)

\* The top-level single-target assignments to REQUIRES with a literal
\* collection value, by position.
DeclIndexes(body) ==
  { i \in 1..Len(body) :
      /\ body[i].kind = "Assign"
      /\ Len(body[i].targets) = 1
      /\ body[i].targets[1] = NameE(REQUIRES)
      /\ body[i].value.kind \in {"List", "Tuple", "Set"} }
FirstDecl(body) ==
  body[CHOOSE i \in DeclIndexes(body) : \A j \in DeclIndexes(body) : i <= j].value.elts
AllStrings(elts) ==
  \A i \in 1..Len(elts) : elts[i].kind = "Constant" /\ elts[i].value.t = "str"

\* C3: requires is None when the file has no top-level single-target
\* assignment to REQUIRES with a literal collection value, the empty but
\* present sequence when the first such collection has no element, and the
\* string elements of the first such collection, all of them and in written
\* order, when they are string literals.
C3_Requires ==
  \A i \in 1..Len(out) :
    LET body == FileOf(out[i]).body
        req == out[i].requires
    IN /\ DeclIndexes(body) = {} => req = None
       /\ (DeclIndexes(body) # {} /\ FirstDecl(body) = <<>>) => req = Some(<<>>)
       /\ (DeclIndexes(body) # {} /\ AllStrings(FirstDecl(body))) =>
            /\ req # None
            /\ Len(req[1]) = Len(FirstDecl(body))
            /\ \A k \in 1..Len(req[1]) :
                 req[1][k] = [t |-> "str", v |-> FirstDecl(body)[k].value.v]

C3_Witness ==
  /\ pc = "done"
  /\ \E i \in 1..Len(out) : out[i].requires = Some(<<>>)
  /\ \E i \in 1..Len(out) : out[i].requires = Some(<<[t |-> "str", v |-> "q"]>>)
  /\ \E f \in tree : Len(f.body) = 2 /\ Cardinality(DeclIndexes(f.body)) = 2

\* C4: a file whose REQUIRES collection holds an element that is not a
\* string literal is emitted with requires None, never with a sequence that
\* is partial or holds a non-string; no exception escapes the pass because
\* of it, and the other files' records are what they are without that file.
C4_NonString ==
  /\ \A i \in 1..Len(out) :
       LET body == FileOf(out[i]).body
       IN (DeclIndexes(body) # {} /\ ~AllStrings(FirstDecl(body))) =>
            out[i].requires = None
  /\ \A i \in 1..Len(out) :
       out[i].requires # None =>
         \A k \in 1..Len(out[i].requires[1]) : out[i].requires[1][k].t = "str"
  /\ pc = "raised" => err \in {Some("SyntaxError"), Some("No such module")}

\* C5: module_by_name(name) returns the first record of that name in
\* all_modules() order whenever all_modules() emits one on the tree; when the
\* stream ends without one it raises 'No such module'; it never returns a
\* null or placeholder record.
C5_ModuleByName ==
  (mode = "lookup" /\ Terminal) =>
    LET hits == { k \in 1..Len(W) : WouldEmit(k) /\ Some(ModuleName(W[k].path)) = arg }
    IN /\ hits # {} =>
            /\ pc = "returned"
            /\ result # None
            /\ Some(result[1].name) = arg
            /\ result[1].file = W[CHOOSE k \in hits : \A j \in hits : k <= j].path
            /\ result[1] = HPIModule(FileOf(result[1]))
       /\ hits = {} =>
            /\ pc = "raised"
            /\ result = None
            /\ (\A k \in 1..Len(W) : ~Fatal(W[k])) => err = Some("No such module")
       /\ pc = "returned" => result # None
       /\ err = Some("No such module") => (hits = {} /\ todo = <<>>)

C5_Witness ==
  /\ mode = "lookup" /\ pc = "returned"
  /\ Cardinality({ k \in 1..Len(W) : WouldEmit(k) /\ Some(ModuleName(W[k].path)) = arg }) >= 2
  /\ Some(result[1].name) = arg

\* C6: the names of the records of one pass are pairwise distinct and not
\* empty, and no file has two records.
C6_UniqueNames ==
  /\ \A i, j \in 1..Len(out) : i # j => out[i].name # out[j].name
  /\ \A i, j \in 1..Len(out) : i # j => out[i].file # out[j].file
  /\ \A i \in 1..Len(out) : out[i].name # <<>>

RECURSIVE EligibleOf(_)
EligibleOf(w) ==
  IF w = <<>> THEN <<>>
  ELSE IF Eligible(Head(w)) THEN <<Head(w).path>> \o EligibleOf(Tail(w))
  ELSE EligibleOf(Tail(w))

\* C7: a pass of all_modules() ends normally only on a tree with no
\* unparseable file among the files that are neither symbolic links nor
\* excluded, and then with a record for every eligible file, in walk order;
\* otherwise it ends with the parse error raised at that file.
C7_ParseFatal ==
  mode = "all" =>
    /\ pc = "done" =>
         /\ \A k \in 1..Len(W) : ~Fatal(W[k])
         /\ [i \in 1..Len(out) |-> out[i].file] = EligibleOf(W)
    /\ pc = "raised" =>
         /\ err = Some("SyntaxError")
         /\ todo # <<>> /\ Fatal(Head(todo))
    /\ (\E k \in 1..Len(W) : Fatal(W[k])) => pc # "done"

C7_Witness ==
  /\ mode = "all" /\ pc = "raised"
  /\ Len(out) >= 1
  /\ Len(todo) >= 2
  /\ Eligible(todo[2])

\* The reference canonicalization: strip the file's .py extension, drop a
\* trailing __init__ component, replace every separator by '.'.
RefCanon(path) ==
  LET name == PathName(path)
      stem == IF EndsWith(name, S_dot_py) THEN SubSeq(name, 1, Len(name) - 3) ELSE name
      parts == IF stem = <<"_", "_", "i", "n", "i", "t", "_", "_">>
               THEN PathParent(path)
               ELSE Append(PathParent(path), stem)
  IN Replace(PathStr(parts), "/", ".")

\* C8: the name of every emitted record is the reference canonicalization
\* of its file.
C8_Canonical ==
  \A i \in 1..Len(out) : out[i].name = RefCanon(out[i].file)

\* C9 as stated: records come in the order of their files' full path strings,
\* no record is of a symbolic link, and a second pass over the unchanged tree
\* emits the same records in the same order.
C9_StringOrder ==
  /\ \A i, j \in 1..Len(out) :
       i < j => StrLess(PathStr(out[i].file), PathStr(out[j].file))
  /\ \A i \in 1..Len(out) : ~FileOf(out[i]).symlink
  /\ (pc = "done" /\ prev # None) => out = prev[1]

\* C9 as amended: records come in the order of their files' paths compared
\* component by component (each component as a string), no record is of a
\* symbolic link, and a second pass emits the same records in the same order.
C9_ComponentOrder ==
  /\ \A i, j \in 1..Len(out) :
       i < j =>
         LET p == out[i].file
             q == out[j].file
             d == CHOOSE n \in 1..(Len(p) + 1) :
                    /\ \A m \in 1..(n - 1) : m <= Len(q) /\ p[m] = q[m]
                    /\ n > Len(p) \/ n > Len(q) \/ p[n] # q[n]
         IN IF d > Len(p) THEN Len(q) > Len(p)
            ELSE d <= Len(q) /\ StrLess(p[d], q[d])
  /\ \A i \in 1..Len(out) : ~FileOf(out[i]).symlink
  /\ (pc = "done" /\ prev # None) => out = prev[1]

C9_Witness ==
  /\ mode = "all" /\ pc = "done" /\ prev # None
  /\ Len(out) >= 2
  /\ \E f \in tree : f.symlink /\ MatchesPy(PathName(f.path))
  /\ \E i, j \in 1..Len(out) :
       i < j /\ StrLess(PathStr(out[j].file), PathStr(out[i].file))

\* C10 as stated: module_by_name returns only after a full pass, so it
\* returns no record on a tree that holds an unparseable file that is
\* neither a symbolic link nor excluded.
C10_FullPass ==
  (mode = "lookup" /\ pc = "returned") =>
    /\ todo = <<>>
    /\ \A k \in 1..Len(W) : ~Fatal(W[k])

\* C10 as amended: module_by_name consumes the stream lazily and stops at the
\* first match.  When it returns, the files after the matched one are
\* untouched and no file before it was unparseable; the parse error is
\* raised only when the unparseable file comes before any match in walk
\* order.
C10_LazyPass ==
  mode = "lookup" =>
    /\ pc = "returned" =>
         \E k \in 1..Len(W) :
           /\ W[k].path = result[1].file
           /\ todo = SubSeq(W, k + 1, Len(W))
           /\ \A j \in 1..(k - 1) : ~Fatal(W[j])
    /\ err = Some("SyntaxError") =>
         /\ todo # <<>> /\ Fatal(Head(todo))
         /\ \A i \in 1..Len(out) : Some(out[i].name) # arg
    /\ (\E i \in 1..Len(out) : Some(out[i].name) = arg) => pc = "returned"

C10_Witness ==
  /\ mode = "lookup" /\ pc = "returned"
  /\ \E i \in 1..Len(todo) : Fatal(todo[i])
=============================================================================
